---------------------------- MODULE Spec2Model ----------------------------
(***************************************************************************)
(* LeadGather: BizBuySellScraper (src/leadgather.py).                      *)
(*                                                                         *)
(* The scraper fetches one page, parses it into a DOM, locates the         *)
(* repeated listing blocks with a cascade of selectors, resolves a fixed   *)
(* set of fields for every block, and exports the records.                 *)
(*                                                                         *)
(* Text (class names, hrefs, text nodes) is a sequence of one-character    *)
(* strings, so that the substring, prefix, lower-casing and slicing        *)
(* operations of the code are computed and not assumed.  Tag names are     *)
(* plain strings: the code only compares them for equality.                *)
(***************************************************************************)
EXTENDS Integers, Sequences, FiniteSets, TLC

(***************************************************************************)
(* Bounds of the model.                                                    *)
(***************************************************************************)
\* the number of markup fragments one served page is composed of
MaxFragments == 2

(***************************************************************************)
(* Text primitives (Python str operations used by the code).               *)
(***************************************************************************)
Whitespace == {" ", "\t", "\n"}

LowerMap ==
  [A |-> "a", B |-> "b", C |-> "c", D |-> "d", E |-> "e", F |-> "f", G |-> "g",
   H |-> "h", I |-> "i", J |-> "j", K |-> "k", L |-> "l", M |-> "m", N |-> "n",
   O |-> "o", P |-> "p", Q |-> "q", R |-> "r", S |-> "s", T |-> "t", U |-> "u",
   V |-> "v", W |-> "w", X |-> "x", Y |-> "y", Z |-> "z"]

\* str.lower()
Lower(s) == [i \in 1..Len(s) |-> IF s[i] \in DOMAIN LowerMap THEN LowerMap[s[i]] ELSE s[i]]

\* str.startswith(prefix)
StartsWith(s, prefix) ==
  /\ Len(prefix) <= Len(s)
  /\ SubSeq(s, 1, Len(prefix)) = prefix

\* sub in s
Contains(s, sub) ==
  \E i \in 1..(Len(s) - Len(sub) + 1) : SubSeq(s, i, i + Len(sub) - 1) = sub

\* str.strip()
Strip(s) ==
  LET keep == {i \in 1..Len(s) : s[i] \notin Whitespace}
  IN  IF keep = {} THEN <<>>
      ELSE LET lo == CHOOSE i \in keep : \A j \in keep : i <= j
               hi == CHOOSE i \in keep : \A j \in keep : j <= i
           IN  SubSeq(s, lo, hi)

RECURSIVE Concat(_)
\* ''.join(parts)
Concat(parts) ==
  IF parts = <<>> THEN <<>> ELSE Head(parts) \o Concat(Tail(parts))

RECURSIVE JoinSpace(_)
\* ' '.join(tokens)
JoinSpace(tokens) ==
  IF tokens = <<>> THEN <<>>
  ELSE IF Len(tokens) = 1 THEN tokens[1]
  ELSE tokens[1] \o <<" ">> \o JoinSpace(Tail(tokens))

Min(S) == CHOOSE x \in S : \A y \in S : x <= y

RECURSIVE SetToSortedSeq(_)
\* the members of a set of positions, in document order
SetToSortedSeq(S) ==
  IF S = {} THEN <<>> ELSE <<Min(S)>> \o SetToSortedSeq(S \ {Min(S)})

(***************************************************************************)
(* The DOM.  A parsed page is a sequence of elements in document order;    *)
(* parent is the position of the enclosing element, 0 for the document.    *)
(* text is the element's own text node, which precedes its children.       *)
(* href is NoAttr when the attribute is absent and <<value>> otherwise.    *)
(* marker says that the element carries a data-listing-id attribute.       *)
(* faulty marks an element on which a BeautifulSoup accessor raises while  *)
(* a listing is resolved.  None is the position of no element.             *)
(***************************************************************************)
NoAttr == <<>>
None == 0

El(tag, cls, text, parent) ==
  [tag |-> tag, cls |-> cls, text |-> text, parent |-> parent,
   href |-> NoAttr, marker |-> FALSE, faulty |-> FALSE]

A(cls, href, text, parent) == [El("a", cls, text, parent) EXCEPT !.href = <<href>>]

Marked(e) == [e EXCEPT !.marker = TRUE]

Faulty(e) == [e EXCEPT !.faulty = TRUE]

\* the position of e's parent chain: is j inside the subtree of anc (0: the document)
RECURSIVE IsDescendant(_, _, _)
IsDescendant(soup, anc, j) ==
  IF anc = 0 THEN TRUE
  ELSE IF soup[j].parent = 0 THEN FALSE
  ELSE soup[j].parent = anc \/ IsDescendant(soup, anc, soup[j].parent)

Descendants(soup, root) == {j \in 1..Len(soup) : IsDescendant(soup, root, j)}

\* Tag.find_all(...): every descendant of root among the elements that satisfy the
\* filter (matching: their positions), in document order
find_all(soup, root, matching) ==
  SetToSortedSeq(Descendants(soup, root) \cap matching)

\* Tag.find(...): the first descendant of root that satisfies the filter, or None
find(soup, root, matching) ==
  LET m == Descendants(soup, root) \cap matching
  IN  IF m = {} THEN None ELSE Min(m)

\* bs4 matching of class_='name': some class token, or the whole class string, is name
HasClass(e, name) ==
  /\ e.cls # <<>>
  /\ \/ \E k \in 1..Len(e.cls) : e.cls[k] = name
     \/ JoinSpace(e.cls) = name

\* lambda x: x and ('listing' in x.lower() or 'result' in x.lower())
ListingOrResult(x) ==
  /\ x # <<>>
  /\ \/ Contains(Lower(x), <<"l", "i", "s", "t", "i", "n", "g">>)
     \/ Contains(Lower(x), <<"r", "e", "s", "u", "l", "t">>)

\* bs4 matching of class_=<function>: applied to each token, then to the whole string
ClassFilter(e) ==
  /\ e.cls # <<>>
  /\ \/ \E k \in 1..Len(e.cls) : ListingOrResult(e.cls[k])
     \/ ListingOrResult(JoinSpace(e.cls))

(***************************************************************************)
(* Block location: the selector cascade of scrape_listings.                *)
(***************************************************************************)
listing_selectors ==
  << [tag |-> "div",     class |-> <<"l", "i", "s", "t", "i", "n", "g", "-", "c", "a", "r", "d">>],
     [tag |-> "div",     class |-> <<"r", "e", "s", "u", "l", "t">>],
     [tag |-> "article", class |-> <<"l", "i", "s", "t", "i", "n", "g">>],
     [tag |-> "div",     class |-> <<"b", "u", "s", "i", "n", "e", "s", "s", "-", "l", "i", "s", "t", "i", "n", "g">>],
     [tag |-> "div",     class |-> <<"l", "i", "s", "t", "i", "n", "g">>] >>

\* soup.find_all(selector['tag'], class_=selector['class'])
TagClass(soup, selector) ==
  find_all(soup, 0, {j \in 1..Len(soup) :
                       soup[j].tag = selector.tag /\ HasClass(soup[j], selector.class)})

\* the marker strategy without its restriction to div elements
AnyWithMarker(soup) ==
  find_all(soup, 0, {j \in 1..Len(soup) : soup[j].marker})

\* soup.find_all('div', {'data-listing-id': True})
DivWithMarker(soup) ==
  find_all(soup, 0, {j \in 1..Len(soup) : soup[j].tag = "div" /\ soup[j].marker})

\* soup.find_all('article')
AllArticles(soup) ==
  find_all(soup, 0, {j \in 1..Len(soup) : soup[j].tag = "article"})

\* soup.find_all('div', class_=lambda x: ...)
DivByClassText(soup) ==
  find_all(soup, 0, {j \in 1..Len(soup) : soup[j].tag = "div" /\ ClassFilter(soup[j])})

\* the loop without its break: the last selector with a match wins
RECURSIVE SelectorLoopNoBreak(_, _)
SelectorLoopNoBreak(soup, k) ==
  IF k > Len(listing_selectors) THEN <<>>
  ELSE LET found == TagClass(soup, listing_selectors[k])
           later == SelectorLoopNoBreak(soup, k + 1)
       IN  IF later # <<>> THEN later ELSE found

\* the for loop over listing_selectors, from selector k on: it breaks at the
\* first selector with a match, and leaves the last (empty) result otherwise
RECURSIVE SelectorLoop(_, _)
SelectorLoop(soup, k) ==
  IF k > Len(listing_selectors) THEN <<>>
  ELSE LET found == TagClass(soup, listing_selectors[k])
       IN  IF found # <<>> THEN found ELSE SelectorLoop(soup, k + 1)

\* a cascade that adds the article fallback to the class matches
LocateMixing(soup) ==
  LET byClass == SelectorLoop(soup, 1)
  IN  IF byClass # <<>>
      THEN find_all(soup, 0, {j \in 1..Len(soup) :
                                \/ soup[j].tag = "article"
                                \/ \E k \in 1..Len(byClass) : byClass[k] = j})
      ELSE IF DivWithMarker(soup) # <<>> THEN DivWithMarker(soup)
      ELSE IF AllArticles(soup) # <<>> THEN AllArticles(soup)
      ELSE DivByClassText(soup)

\* found_listings after the whole cascade
Locate(soup) ==
  LET byClass  == SelectorLoop(soup, 1)
      byMarker == IF byClass = <<>> THEN DivWithMarker(soup) ELSE byClass
  IN  IF byMarker # <<>> THEN byMarker
      ELSE LET articles == AllArticles(soup)
           IN  IF articles = <<>> THEN DivByClassText(soup) ELSE articles

(***************************************************************************)
(* Field resolution: _extract_listing_data.                                *)
(***************************************************************************)
base_url == <<"h", "t", "t", "p", "s", ":", "/", "/", "w", "w", "w", ".", "b", "i", "z", "b", "u", "y", "s", "e", "l", "l", ".", "c", "o", "m">>

AnyTag == "*"
NoClass == <<>>

\* a CSS selector of the forms the code uses: tag, .class, tag.class, [class*="sub"]
TagSel(tag)        == [tag |-> tag,    class |-> NoClass, sub |-> <<>>]
ClassSel(c)        == [tag |-> AnyTag, class |-> c,       sub |-> <<>>]
TagClassSel(t, c)  == [tag |-> t,      class |-> c,       sub |-> <<>>]
ClassContains(sub) == [tag |-> AnyTag, class |-> NoClass, sub |-> sub]

title_selectors ==
  << TagSel("h2"), TagSel("h3"), TagSel("h4"), ClassSel(<<"t", "i", "t", "l", "e">>),
     ClassSel(<<"l", "i", "s", "t", "i", "n", "g", "-", "t", "i", "t", "l", "e">>), TagClassSel("a", <<"t", "i", "t", "l", "e">>) >>

price_selectors ==
  << ClassSel(<<"p", "r", "i", "c", "e">>), ClassSel(<<"l", "i", "s", "t", "i", "n", "g", "-", "p", "r", "i", "c", "e">>), ClassSel(<<"a", "s", "k", "i", "n", "g", "-", "p", "r", "i", "c", "e">>),
     ClassContains(<<"p", "r", "i", "c", "e">>) >>

location_selectors ==
  << ClassSel(<<"l", "o", "c", "a", "t", "i", "o", "n">>), ClassSel(<<"l", "i", "s", "t", "i", "n", "g", "-", "l", "o", "c", "a", "t", "i", "o", "n">>), ClassSel(<<"a", "d", "d", "r", "e", "s", "s">>),
     ClassContains(<<"l", "o", "c", "a", "t", "i", "o", "n">>) >>

desc_selectors ==
  << ClassSel(<<"d", "e", "s", "c", "r", "i", "p", "t", "i", "o", "n">>), ClassSel(<<"l", "i", "s", "t", "i", "n", "g", "-", "d", "e", "s", "c", "r", "i", "p", "t", "i", "o", "n">>), ClassSel(<<"s", "u", "m", "m", "a", "r", "y">>),
     TagSel("p") >>

\* does element e match the CSS selector
SelMatches(e, sel) ==
  /\ sel.tag = AnyTag \/ e.tag = sel.tag
  /\ sel.class = NoClass \/ \E k \in 1..Len(e.cls) : e.cls[k] = sel.class
  /\ sel.sub = <<>> \/ (e.cls # <<>> /\ Contains(JoinSpace(e.cls), sel.sub))

\* Tag.select_one(selector): the first matching descendant, or None
select_one(soup, root, sel) ==
  find(soup, root, {j \in 1..Len(soup) : SelMatches(soup[j], sel)})

\* for selector in selectors: elem = select_one(selector); if elem: ...; break
RECURSIVE FirstHit(_, _, _, _)
FirstHit(soup, root, selectors, k) ==
  IF k > Len(selectors) THEN None
  ELSE LET elem == select_one(soup, root, selectors[k])
       IN  IF elem # None THEN elem ELSE FirstHit(soup, root, selectors, k + 1)

\* the text nodes of the subtree of root, in document order
Strings(soup, root) ==
  LET nodes == SetToSortedSeq({j \in {root} \cup Descendants(soup, root) : soup[j].text # <<>>})
  IN  [k \in 1..Len(nodes) |-> soup[nodes[k]].text]

\* Tag.get_text()
get_text(soup, root) == Concat(Strings(soup, root))

\* Tag.get_text(strip=True): every string stripped, the empty ones dropped
get_text_strip(soup, root) ==
  LET all == Strings(soup, root)
  IN  Concat([k \in 1..Len(all) |-> Strip(all[k])])


\* d[key] = value on a Python dict
SetItem(d, key, value) ==
  [k \in DOMAIN d \cup {key} |-> IF k = key THEN value ELSE d[k]]

\* a dict that starts with the index alone, the fields added when they are found
InitialDataIndexOnly(index) == [index |-> index]

\* the dict literal _extract_listing_data starts from
InitialData(index) ==
  [index |-> index, title |-> <<>>, price |-> <<>>, location |-> <<>>,
   description |-> <<>>, link |-> <<>>, revenue |-> <<>>, cash_flow |-> <<>>]

\* href if href.startswith('http') else self.base_url + href
ResolveLink(href) ==
  IF StartsWith(href, <<"h", "t", "t", "p">>) THEN href ELSE base_url \o href

\* the title block: sets title, and link when the title element is or holds an anchor
WithTitle(soup, root, data) ==
  LET title_elem == FirstHit(soup, root, title_selectors, 1)
  IN  IF title_elem = None THEN data
      ELSE LET titled == SetItem(data, "title", get_text_strip(soup, title_elem))
               inner  == find(soup, title_elem, {j \in 1..Len(soup) : soup[j].tag = "a"})
           IN  IF soup[title_elem].tag = "a" \/ inner # None
               THEN LET link_elem == IF soup[title_elem].tag = "a" THEN title_elem ELSE inner
                        href == IF soup[link_elem].href = NoAttr THEN <<>>
                                ELSE soup[link_elem].href[1]
                    IN  IF href # <<>> THEN SetItem(titled, "link", ResolveLink(href))
                        ELSE titled
               ELSE titled

\* a selector-based text field: price, location, description
WithField(soup, root, data, key, selectors) ==
  LET elem == FirstHit(soup, root, selectors, 1)
  IN  IF elem = None THEN data
      ELSE SetItem(data, key, get_text_strip(soup, elem))

\* text and ('revenue' in text.lower() or 'sales' in text.lower())
IsRevenueText(text) ==
  /\ text # <<>>
  /\ Contains(Lower(text), <<"r", "e", "v", "e", "n", "u", "e">>) \/ Contains(Lower(text), <<"s", "a", "l", "e", "s">>)

\* text and 'cash flow' in text.lower()
IsCashFlowText(text) ==
  /\ text # <<>>
  /\ Contains(Lower(text), <<"c", "a", "s", "h", " ", "f", "l", "o", "w">>)

\* the keyword test of a keyword field
HasKeyword(key, text) ==
  IF key = "revenue" THEN IsRevenueText(text) ELSE IsCashFlowText(text)

\* Tag.find(string=lambda text: ...): the first text node of the subtree with the
\* keyword of the field, as <<text>>, or <<>> when there is none
find_string(soup, root, key) ==
  LET all == Strings(soup, root)
      hit == {k \in 1..Len(all) : HasKeyword(key, all[k])}
  IN  IF hit = {} THEN <<>> ELSE <<all[Min(hit)]>>

\* a keyword field: the pre-check on the whole text, then the first text node with it
WithKeyword(soup, root, data, key) ==
  IF HasKeyword(key, Lower(get_text(soup, root)))
  THEN LET elem == find_string(soup, root, key)
       IN  IF elem # <<>> THEN SetItem(data, key, Strip(elem[1])) ELSE data
  ELSE data

\* an accessor raises on some element of the listing's subtree
Raises(soup, root) ==
  \E j \in {root} \cup Descendants(soup, root) : soup[j].faulty

\* the dict _extract_listing_data returns when nothing raises
_extract_listing_data(soup, listing_element, index) ==
  LET d0 == InitialData(index)
      d1 == WithTitle(soup, listing_element, d0)
      d2 == WithField(soup, listing_element, d1, "price", price_selectors)
      d3 == WithField(soup, listing_element, d2, "location", location_selectors)
      d4 == WithField(soup, listing_element, d3, "description", desc_selectors)
      d5 == WithKeyword(soup, listing_element, d4, "revenue")
  IN  WithKeyword(soup, listing_element, d5, "cash_flow")

(***************************************************************************)
(* Export: save_to_json, save_to_csv, print_listings.                      *)
(***************************************************************************)
\* the insertion order of the keys of the dict literal
FieldOrder ==
  << "index", "title", "price", "location", "description", "link", "revenue", "cash_flow" >>

DisplayLimit == 100

Digits == << "0", "1", "2", "3", "4", "5", "6", "7", "8", "9" >>

\* str(n) of a natural number
RECURSIVE ToDigits(_)
ToDigits(n) ==
  IF n < 10 THEN << Digits[n + 1] >>
  ELSE ToDigits(n \div 10) \o << Digits[(n % 10) + 1] >>

\* str(value) of a field: the index is a number, every other field a string
Str(key, value) == IF key = "index" THEN ToDigits(value) ELSE value

\* dict.keys(): the keys, in insertion order
Keys(d) == SelectSeq(FieldOrder, LAMBDA k : k \in DOMAIN d)

\* json.dump(listings): an array of objects, each the members of the dict in key
\* order; a number is written as its digits, a string quoted
JsonDump(listings) ==
  [i \in 1..Len(listings) |->
     LET d == listings[i]
         keys == Keys(d)
     IN  [k \in 1..Len(keys) |->
            [key |-> keys[k],
             quoted |-> keys[k] # "index",
             text |-> Str(keys[k], d[keys[k]])]]]

\* csv.DictWriter: the header from the first record's keys, one row per record
CsvDump(listings) ==
  LET fieldnames == Keys(listings[1])
  IN  [header |-> fieldnames,
       rows |-> [i \in 1..Len(listings) |->
                   [k \in 1..Len(fieldnames) |->
                      Str(fieldnames[k], listings[i][fieldnames[k]])]]]

\* description[:100] + '...' if len(description) > 100 else description
DisplayDescription(description) ==
  IF Len(description) > DisplayLimit
  THEN SubSeq(description, 1, DisplayLimit) \o <<".", ".", ".">>
  ELSE description

\* the lines print_listings prints for one record
PrintedLines(listing) ==
  LET Line(label, text) == << [label |-> label, text |-> text] >>
      Optional(label, key) ==
        IF listing[key] # <<>> THEN Line(label, listing[key]) ELSE <<>>
  IN  Line("Listing #", ToDigits(listing["index"]))
        \o Line("Title", listing["title"])
        \o Line("Price", listing["price"])
        \o Line("Location", listing["location"])
        \o Optional("Revenue", "revenue")
        \o Optional("Cash Flow", "cash_flow")
        \o Optional("Link", "link")
        \o (IF listing["description"] # <<>>
            THEN Line("Description", DisplayDescription(listing["description"]))
            ELSE <<>>)

(***************************************************************************)
(* The pages the site may serve.  The markup of a page is a sequence of    *)
(* fragments; BeautifulSoup parses it into the DOM.  Inside a fragment,    *)
(* parent is the position within the fragment (0: the document).           *)
(***************************************************************************)
LongText(n) == [i \in 1..n |-> "x"]

FragmentNames ==
  { "title", "card_rel", "card_abs", "card_ftp", "card_faulty", "result_long",
    "article_listing", "business", "listing", "marked_div", "marked_span",
    "article_plain", "sub_div", "other", "sub_section" }

Fragment(name) ==
  CASE name = "title" ->
         << El("title", <<>>, <<" ", "B", "i", "z", " ">>, 0) >>
    [] name = "card_rel" ->
         << El("div", << <<"l", "i", "s", "t", "i", "n", "g", "-", "c", "a", "r", "d">> >>, <<>>, 0),
            El("h2", <<>>, <<" ", "A", "c", "m", "e", " ">>, 1),
            A(<<>>, <<"/", "l", "/", "1">>, <<"B", "a", "k", "e", "r", "y">>, 2),
            El("p", <<>>, <<"S", "a", "l", "e", "s", ":", " ", "5">>, 1) >>
    [] name = "card_abs" ->
         << El("div", << <<"l", "i", "s", "t", "i", "n", "g", "-", "c", "a", "r", "d">> >>, <<>>, 0),
            A(<< <<"t", "i", "t", "l", "e">> >>, <<"h", "t", "t", "p", "s", ":", "/", "/", "x", ".", "y", "/", "1">>, <<"T">>, 1),
            El("span", << <<"p", "r", "i", "c", "e">> >>, <<"$", "1">>, 1) >>
    [] name = "card_ftp" ->
         << El("div", << <<"l", "i", "s", "t", "i", "n", "g", "-", "c", "a", "r", "d">> >>, <<>>, 0),
            El("h3", <<>>, <<>>, 1),
            A(<<>>, <<"f", "t", "p", ":", "/", "/", "f", "/", "1">>, <<"F">>, 2) >>
    [] name = "card_faulty" ->
         << El("div", << <<"l", "i", "s", "t", "i", "n", "g", "-", "c", "a", "r", "d">> >>, <<>>, 0),
            Faulty(El("h2", <<>>, <<"B", "a", "d">>, 1)) >>
    [] name = "result_long" ->
         << El("div", << <<"r", "e", "s", "u", "l", "t">> >>, <<>>, 0),
            El("h4", <<>>, <<"R">>, 1),
            El("div", << <<"l", "o", "c", "a", "t", "i", "o", "n">> >>, <<" ", "N", "Y">>, 1),
            El("p", <<>>, LongText(DisplayLimit + 1), 1) >>
    [] name = "article_listing" ->
         << El("article", << <<"l", "i", "s", "t", "i", "n", "g">> >>, <<>>, 0),
            El("h2", <<>>, <<>>, 1),
            El("a", <<>>, <<"n">>, 2),
            A(<<>>, <<"/", "x">>, <<"y">>, 2) >>
    [] name = "business" ->
         << El("div", << <<"b", "u", "s", "i", "n", "e", "s", "s", "-", "l", "i", "s", "t", "i", "n", "g">>, <<"f", "e", "a", "t", "u", "r", "e", "d">> >>, <<>>, 0),
            El("p", <<>>, LongText(DisplayLimit), 1),
            El("div", << <<"a", "s", "k", "i", "n", "g", "-", "p", "r", "i", "c", "e", "-", "b", "o", "x">> >>, <<"C", "a", "s", "h", " ", "F", "l", "o", "w", ":", " ", "3">>, 1) >>
    [] name = "listing" ->
         << El("div", << <<"l", "i", "s", "t", "i", "n", "g">> >>, <<>>, 0) >>
    [] name = "marked_div" ->
         << Marked(El("div", <<>>, <<>>, 0)),
            El("h2", <<>>, <<>>, 1),
            A(<<>>, <<>>, <<"e">>, 2) >>
    [] name = "marked_span" ->
         << Marked(El("span", <<>>, <<>>, 0)),
            El("h3", <<>>, <<"S">>, 1) >>
    [] name = "article_plain" ->
         << El("article", <<>>, <<>>, 0),
            El("span", << <<"l", "i", "s", "t", "i", "n", "g", "-", "t", "i", "t", "l", "e">> >>, <<"X">>, 1) >>
    [] name = "sub_div" ->
         << El("div", << <<"S", "e", "a", "r", "c", "h", "-", "R", "e", "s", "u", "l", "t", "s">> >>, <<>>, 0),
            El("h2", <<>>, <<>>, 1),
            A(<<>>, <<"h", "t", "t", "p", "-", "d", "e", "a", "l", "s", "/", "1">>, <<"D">>, 2) >>
    [] name = "other" ->
         << El("div", << <<"o", "t", "h", "e", "r">> >>, <<>>, 0),
            El("p", <<>>, <<"n", "o", "n", "e">>, 1) >>
    [] name = "sub_section" ->
         << El("section", << <<"t", "o", "p", "-", "l", "i", "s", "t", "i", "n", "g", "s">> >>, <<>>, 0),
            El("p", << <<"s", "u", "m", "m", "a", "r", "y">> >>, <<"R", "e", "v", "e", "n", "u", "e", " ", "9">>, 1) >>

\* the markups of at most MaxFragments fragments
Pages == UNION {[1..n -> FragmentNames] : n \in 0..MaxFragments}

\* BeautifulSoup(page_source, 'html.parser'): the elements of the fragments in
\* document order, their parents shifted to positions in the document
RECURSIVE BeautifulSoup(_)
BeautifulSoup(markup) ==
  IF markup = <<>> THEN <<>>
  ELSE LET front == BeautifulSoup(SubSeq(markup, 1, Len(markup) - 1))
           frag  == Fragment(markup[Len(markup)])
           Shift(e) == IF e.parent = 0 THEN e
                       ELSE [e EXCEPT !.parent = e.parent + Len(front)]
       IN  front \o [k \in 1..Len(frag) |-> Shift(frag[k])]

(***************************************************************************)
(* State.                                                                  *)
(*   pc               where main and scrape_listings stand                 *)
(*   page_source      driver.page_source, the markup fetched               *)
(*   soup             the parsed DOM                                       *)
(*   found_listings   the located blocks, positions in soup                *)
(*   idx              the number of blocks the extraction loop has taken   *)
(*   listings         the records collected, then returned to main         *)
(*   console          the messages printed by scrape_listings and main     *)
(*   page_content_html, listings_json, listings_csv                        *)
(*                    the files: <<>> when not written, <<content>> else   *)
(*   printed          the output of print_listings, <<>> when not called   *)
(*   called           the export methods main has called                   *)
(***************************************************************************)
VARIABLES pc, page_source, soup, found_listings, idx, listings, console,
          page_content_html, listings_json, listings_csv, printed, called

vars == << pc, page_source, soup, found_listings, idx, listings, console,
           page_content_html, listings_json, listings_csv, printed, called >>

Message(msg, text) == [msg |-> msg, text |-> text]

files == << page_content_html, listings_json, listings_csv, printed, called >>

Init ==
  /\ pc = "start"
  /\ page_source = <<>>
  /\ soup = <<>>
  /\ found_listings = <<>>
  /\ idx = 0
  /\ listings = <<>>
  /\ console = {}
  /\ page_content_html = <<>>
  /\ listings_json = <<>>
  /\ listings_csv = <<>>
  /\ printed = <<>>
  /\ called = {}

\* except Exception as e: print(f"Error scraping URL: {e}"); return []
ScrapeFailed ==
  /\ pc' = "returned"
  /\ listings' = <<>>
  /\ console' = console \cup {Message("Error scraping URL", <<>>)}

\* driver.get(url) and driver.page_source succeed: the site serves some page
Fetch ==
  /\ pc = "start"
  /\ \E markup \in Pages : page_source' = markup
  /\ pc' = "fetched"
  /\ console' = console \cup {Message("Scraping", <<>>)}
  /\ UNCHANGED << soup, found_listings, idx, listings, files >>

\* driver.get(url) or driver.page_source raises
FetchRaises ==
  /\ pc = "start"
  /\ ScrapeFailed
  /\ UNCHANGED << page_source, soup, found_listings, idx, files >>

\* the page is parsed and the blocks are located
ParseAndLocate ==
  /\ pc = "fetched"
  /\ soup' = BeautifulSoup(page_source)
  /\ found_listings' = Locate(soup')
  /\ idx' = 0
  /\ listings' = <<>>
  /\ pc' = "extract"
  /\ console' = console \cup {Message("Total elements found", ToDigits(Len(found_listings')))}
  /\ UNCHANGED << page_source, files >>

\* a handler that saves the fetched page for inspection before it returns
ParseRaisesSavesPage ==
  /\ pc = "fetched"
  /\ ScrapeFailed
  /\ page_content_html' = << page_source >>
  /\ UNCHANGED << page_source, soup, found_listings, idx,
                  listings_json, listings_csv, printed, called >>

\* BeautifulSoup(page_source, 'html.parser') raises
ParseRaises ==
  /\ pc = "fetched"
  /\ ScrapeFailed
  /\ UNCHANGED << page_source, soup, found_listings, idx, files >>

\* enumerate(found_listings), which counts from 0
LoopItemsFromZero(found) == [k \in 1..Len(found) |-> [idx |-> k - 1, listing |-> found[k]]]

\* enumerate(found_listings, 1)
LoopItems(found) == [k \in 1..Len(found) |-> [idx |-> k, listing |-> found[k]]]

\* one iteration of the extraction loop in which nothing raises
ExtractListing ==
  /\ pc = "extract"
  /\ idx < Len(found_listings)
  /\ LET item == LoopItems(found_listings)[idx + 1]
     IN  /\ ~Raises(soup, item.listing)
         /\ LET listing_data == _extract_listing_data(soup, item.listing, item.idx)
            IN  listings' = IF DOMAIN listing_data # {}
                            THEN Append(listings, listing_data)
                            ELSE listings
  /\ idx' = idx + 1
  /\ UNCHANGED << pc, page_source, soup, found_listings, console, files >>

\* an iteration in which the exception leaves the loop instead of continuing it
ExtractRaisesAborts ==
  /\ pc = "extract"
  /\ idx < Len(found_listings)
  /\ LET item == LoopItems(found_listings)[idx + 1]
     IN  /\ Raises(soup, item.listing)
         /\ console' = console \cup {Message("Error extracting listing", ToDigits(item.idx))}
  /\ pc' = "returned"
  /\ UNCHANGED << idx, page_source, soup, found_listings, listings, files >>

\* one iteration in which _extract_listing_data raises: except ...: print; continue
ExtractRaises ==
  /\ pc = "extract"
  /\ idx < Len(found_listings)
  /\ LET item == LoopItems(found_listings)[idx + 1]
     IN  /\ Raises(soup, item.listing)
         /\ console' = console \cup {Message("Error extracting listing", ToDigits(item.idx))}
  /\ idx' = idx + 1
  /\ UNCHANGED << pc, page_source, soup, found_listings, listings, files >>

\* a fallback written only when no block was located
FinishWhenNoBlocks ==
  /\ pc = "extract"
  /\ idx = Len(found_listings)
  /\ IF found_listings = <<>>
     THEN /\ page_content_html' = << page_source >>
          /\ console' = console \cup {Message("Warning: No structured listings found", <<>>)}
     ELSE UNCHANGED << page_content_html, console >>
  /\ pc' = "returned"
  /\ UNCHANGED << page_source, soup, found_listings, idx, listings,
                  listings_json, listings_csv, printed, called >>

\* after the loop: the raw-page fallback when no record was collected, then return
Finish ==
  /\ pc = "extract"
  /\ idx = Len(found_listings)
  /\ IF listings = <<>>
     THEN /\ page_content_html' = << page_source >>
          /\ LET title == find(soup, 0, {j \in 1..Len(soup) : soup[j].tag = "title"})
             IN  console' = console
                    \cup {Message("Warning: No structured listings found", <<>>)}
                    \cup (IF title # None
                          THEN {Message("Page title", get_text_strip(soup, title))}
                          ELSE {})
     ELSE UNCHANGED << page_content_html, console >>
  /\ pc' = "returned"
  /\ UNCHANGED << page_source, soup, found_listings, idx, listings,
                  listings_json, listings_csv, printed, called >>

\* main: if listings: ... else: print("No listings were extracted.")
MainBranch ==
  /\ pc = "returned"
  /\ IF listings # <<>>
     THEN /\ pc' = "export"
          /\ UNCHANGED console
     ELSE /\ pc' = "done"
          /\ console' = console \cup {Message("No listings were extracted", <<>>)}
  /\ UNCHANGED << page_source, soup, found_listings, idx, listings, files >>

\* a print_listings that stores the shortened description back into the record
print_listings_truncating ==
  /\ pc = "export"
  /\ "print_listings" \notin called
  /\ printed' = << [i \in 1..Len(listings) |-> PrintedLines(listings[i])] >>
  /\ listings' = [i \in 1..Len(listings) |->
                    [listings[i] EXCEPT !["description"] = DisplayDescription(@)]]
  /\ called' = called \cup {"print_listings"}
  /\ UNCHANGED << pc, page_source, soup, found_listings, idx, console,
                  page_content_html, listings_json, listings_csv >>

\* scraper.print_listings(listings)
print_listings ==
  /\ pc = "export"
  /\ "print_listings" \notin called
  /\ printed' = IF listings = <<>> THEN << <<>> >>
                ELSE << [i \in 1..Len(listings) |-> PrintedLines(listings[i])] >>
  /\ called' = called \cup {"print_listings"}
  /\ UNCHANGED << pc, page_source, soup, found_listings, idx, listings, console,
                  page_content_html, listings_json, listings_csv >>

\* scraper.save_to_json(listings)
save_to_json ==
  /\ pc = "export"
  /\ "save_to_json" \notin called
  /\ listings_json' = << JsonDump(listings) >>
  /\ called' = called \cup {"save_to_json"}
  /\ UNCHANGED << pc, page_source, soup, found_listings, idx, listings, console,
                  page_content_html, listings_csv, printed >>

\* scraper.save_to_csv(listings)
save_to_csv ==
  /\ pc = "export"
  /\ "save_to_csv" \notin called
  /\ listings_csv' = IF listings = <<>> THEN listings_csv ELSE << CsvDump(listings) >>
  /\ called' = called \cup {"save_to_csv"}
  /\ UNCHANGED << pc, page_source, soup, found_listings, idx, listings, console,
                  page_content_html, listings_json, printed >>

\* finally: scraper.driver.quit()
Quit ==
  /\ pc = "export"
  /\ called = {"print_listings", "save_to_json", "save_to_csv"}
  /\ pc' = "done"
  /\ UNCHANGED << page_source, soup, found_listings, idx, listings, console, files >>

Next ==
  \/ Fetch
  \/ FetchRaises
  \/ ParseAndLocate
  \/ ParseRaises
  \/ ExtractListing
  \/ ExtractRaises
  \/ Finish
  \/ MainBranch
  \/ print_listings
  \/ save_to_json
  \/ save_to_csv
  \/ Quit

Spec == Init /\ [][Next]_vars

(***************************************************************************)
(* Properties.                                                             *)
(***************************************************************************)
\* the page was fetched and parsed, and the blocks were located
Parsed == \E m \in console : m.msg = "Total elements found"

\* the scrape ended in the except handler of scrape_listings
Failed == \E m \in console : m.msg = "Error scraping URL"

\* scrape_listings has returned
Returned == pc \in {"returned", "export", "done"}

\* the matches of the k-th strategy of the cascade as the code runs it
Strategy(dom, k) ==
  CASE k \in 1..5 -> TagClass(dom, listing_selectors[k])
    [] k = 6 -> DivWithMarker(dom)
    [] k = 7 -> AllArticles(dom)
    [] k = 8 -> DivByClassText(dom)

\* the matches of the earliest strategy with a match, <<>> when none has one
FirstMatch(dom) ==
  LET hits == {k \in 1..8 : Strategy(dom, k) # <<>>}
  IN  IF hits = {} THEN <<>> ELSE Strategy(dom, Min(hits))

\* the marker and class-text strategies without a restriction on the tag
StrategyAnyTag(dom, k) ==
  CASE k \in {1, 2, 3, 4, 5, 7} -> Strategy(dom, k)
    [] k = 6 -> SetToSortedSeq({j \in 1..Len(dom) : dom[j].marker})
    [] k = 8 -> SetToSortedSeq({j \in 1..Len(dom) : ClassFilter(dom[j])})

FirstMatchAnyTag(dom) ==
  LET hits == {k \in 1..8 : StrategyAnyTag(dom, k) # <<>>}
  IN  IF hits = {} THEN <<>> ELSE StrategyAnyTag(dom, Min(hits))

\* the blocks of found_listings whose field resolution raises
RaisingPositions == {k \in 1..Len(found_listings) : Raises(soup, found_listings[k])}

\* the records that carry index k
RecordsAt(k) == {i \in 1..Len(listings) : listings[i]["index"] = k}

\* C1 (as amended): once the blocks are located, found_listings is exactly the
\* matches of the earliest strategy, in the order [(div,listing-card), (div,result),
\* (article,listing), (div,business-listing), (div,listing), div elements carrying
\* data-listing-id, all article tags, div elements whose class text contains
\* 'listing' or 'result'], that has a match; and on return every one of these
\* blocks, and no other node, has been taken by the extraction loop.
C1_FirstStrategyOnly ==
  Parsed =>
    /\ found_listings = FirstMatch(soup)
    /\ Returned => idx = Len(found_listings)

\* C1 witness: two strategies match the page and only the earlier one's nodes were processed
C1_Witness ==
  /\ Parsed /\ Returned
  /\ Cardinality({k \in 1..8 : Strategy(soup, k) # <<>>}) >= 2
  /\ found_listings = FirstMatch(soup)
  /\ \E k \in 1..8 : Strategy(soup, k) # <<>> /\ Strategy(soup, k) # found_listings

\* C1 (as stated): the same, with the marker strategy and the class-text strategy
\* matching nodes of any tag
C1_AsStated ==
  Parsed => found_listings = FirstMatchAnyTag(soup)

\* C2 (as amended): when strategy 1 matches a node, the number of records returned
\* is the number of nodes matched by the first successful strategy less the number
\* of those nodes whose field resolution raised.
C2_CountLessRaised ==
  (Parsed /\ Returned /\ \E k \in 1..5 : Strategy(soup, k) # <<>>) =>
    LET matched == FirstMatch(soup)
        raised == {k \in 1..Len(matched) : Raises(soup, matched[k])}
    IN  Len(listings) = Len(matched) - Cardinality(raised)

\* C2 witness: strategy 1 matched, one block raised and another gave a record
C2_Witness ==
  /\ Parsed /\ Returned
  /\ \E k \in 1..5 : Strategy(soup, k) # <<>>
  /\ RaisingPositions # {}
  /\ listings # <<>>

\* C2 (as stated): when strategy 1 matches a node, the number of records returned
\* equals the number of nodes matched by the first successful strategy
C2_AsStated ==
  (Parsed /\ Returned /\ \E k \in 1..5 : Strategy(soup, k) # <<>>) =>
    Len(listings) = Len(FirstMatch(soup))

\* C3: in the records of one call over N located blocks the index values are
\* strictly increasing, lie in 1..N, each record is the one resolved from the block
\* at the position its index names, and on return a position is missing exactly
\* when the resolution of its block raised.
C3_IndexSubsequence ==
  Parsed =>
    /\ \A i, j \in 1..Len(listings) : i < j => listings[i]["index"] < listings[j]["index"]
    /\ \A i \in 1..Len(listings) :
         /\ listings[i]["index"] \in 1..Len(found_listings)
         /\ listings[i] = _extract_listing_data(soup, found_listings[listings[i]["index"]],
                                                listings[i]["index"])
    /\ Returned =>
         \A k \in 1..Len(found_listings) : (RecordsAt(k) = {}) <=> (k \in RaisingPositions)

\* C3 witness: the first block raised, so the first record returned carries index 2
C3_Witness ==
  /\ Parsed /\ Returned
  /\ 1 \in RaisingPositions
  /\ listings # <<>>
  /\ listings[1]["index"] = 2

\* C4: on a page that was fetched and parsed, the fallback file is written exactly
\* when the record sequence returned is empty, it then holds the page markup, and it
\* is never written before the extraction loop has ended.
C4_FallbackIffEmpty ==
  /\ (Parsed /\ Returned) =>
       /\ (page_content_html # <<>>) <=> (listings = <<>>)
       /\ page_content_html # <<>> => page_content_html = << page_source >>
  /\ ~Returned => page_content_html = <<>>

\* C4 witness: blocks were located, every one of them raised, and the fallback was written
C4_Witness ==
  /\ Parsed /\ Returned
  /\ found_listings # <<>>
  /\ listings = <<>>
  /\ page_content_html = << page_source >>

\* C5: when the fetch or the parse raises, scrape_listings returns no record, has
\* located no block and resolved no field, and writes no fallback file; a page that
\* was fetched and parsed and gave no record does have the fallback file written.
C5_FailureWritesNothing ==
  /\ Failed =>
       /\ Returned /\ ~Parsed
       /\ listings = <<>>
       /\ found_listings = <<>> /\ idx = 0 /\ soup = <<>>
       /\ page_content_html = <<>>
  /\ (Returned /\ ~Failed /\ listings = <<>>) => page_content_html # <<>>

\* C5 witness: a page was fetched, its parse raised, and main has ended
C5_Witness ==
  /\ Failed
  /\ page_source # <<>>
  /\ pc = "done"

\* C6: an exception in the resolution of one block never ends the loop: of the
\* blocks taken so far each one that raised has no record and each other one has
\* exactly one, and on return every located block has been taken.
C6_NoAbort ==
  Parsed =>
    /\ idx <= Len(found_listings)
    /\ \A k \in 1..Len(found_listings) :
         Cardinality(RecordsAt(k)) = IF k <= idx /\ k \notin RaisingPositions THEN 1 ELSE 0
    /\ Returned => idx = Len(found_listings)

\* C6 witness: a block raised and a later block still gave its record
C6_Witness ==
  /\ Parsed /\ Returned
  /\ \E k \in RaisingPositions : \E i \in 1..Len(listings) : listings[i]["index"] > k

Letters ==
  { "a", "b", "c", "d", "e", "f", "g", "h", "i", "j", "k", "l", "m", "n", "o", "p", "q",
    "r", "s", "t", "u", "v", "w", "x", "y", "z" } \cup DOMAIN LowerMap

\* an absolute URL starts with a scheme: a letter, then letters, digits, + - . and a colon
IsAbsoluteURL(url) ==
  \E i \in 2..Len(url) :
    /\ url[i] = ":"
    /\ url[1] \in Letters
    /\ \A j \in 2..(i - 1) :
         url[j] \in Letters \cup {Digits[d] : d \in 1..10} \cup {"+", "-", "."}

\* the href of the hyperlink of the element that wins the title lookup of a block:
\* <<>> when no element wins, it neither is nor holds a hyperlink, or the href is
\* absent or empty
TitleHref(dom, block) ==
  LET title_elem == FirstHit(dom, block, title_selectors, 1)
      link_elem == IF title_elem = None THEN None
                   ELSE IF dom[title_elem].tag = "a" THEN title_elem
                   ELSE find(dom, title_elem, {j \in 1..Len(dom) : dom[j].tag = "a"})
  IN  IF link_elem = None THEN <<>>
      ELSE IF dom[link_elem].href = NoAttr THEN <<>>
      ELSE dom[link_elem].href[1]

\* C7: the link of every record is the href of the title's hyperlink unchanged when
\* that href is an absolute URL, the base origin followed by the href when it is
\* not, so that every non-empty link is an absolute URL, and the empty string when
\* there is no such hyperlink or its href is empty.
C7_LinkResolution ==
  \A i \in 1..Len(listings) :
    LET href == TitleHref(soup, found_listings[listings[i]["index"]])
        link == listings[i]["link"]
    IN  /\ href = <<>> => link = <<>>
        /\ (href # <<>> /\ IsAbsoluteURL(href)) => link = href
        /\ (href # <<>> /\ ~IsAbsoluteURL(href)) => link = base_url \o href
        /\ link # <<>> => IsAbsoluteURL(link)

\* the keys of the dict literal
FixedKeys == {FieldOrder[k] : k \in 1..Len(FieldOrder)}

\* C8: every record has exactly the keys index, title, price, location, description,
\* link, revenue, cash_flow, and a field whose locators all miss the block holds
\* the empty string.
C8_FixedKeys ==
  \A i \in 1..Len(listings) :
    LET rec == listings[i]
    IN  /\ DOMAIN rec = FixedKeys
        /\ LET block == found_listings[rec["index"]]
               Missed(selectors) == FirstHit(soup, block, selectors, 1) = None
               text == Lower(get_text(soup, block))
           IN  /\ Missed(title_selectors) => rec["title"] = <<>> /\ rec["link"] = <<>>
               /\ Missed(price_selectors) => rec["price"] = <<>>
               /\ Missed(location_selectors) => rec["location"] = <<>>
               /\ Missed(desc_selectors) => rec["description"] = <<>>
               /\ ~IsRevenueText(text) => rec["revenue"] = <<>>
               /\ ~IsCashFlowText(text) => rec["cash_flow"] = <<>>

\* C8 witness: a record of a block whose title locators hit and whose price and
\* location locators all miss: the keys are there and hold the empty string
C8_Witness ==
  \E i \in 1..Len(listings) :
    LET block == found_listings[listings[i]["index"]]
    IN  /\ FirstHit(soup, block, title_selectors, 1) # None
        /\ FirstHit(soup, block, price_selectors, 1) = None
        /\ FirstHit(soup, block, location_selectors, 1) = None
        /\ DOMAIN listings[i] = FixedKeys
        /\ listings[i]["title"] # <<>>
        /\ listings[i]["price"] = <<>> /\ listings[i]["location"] = <<>>

\* the text written to listings.json for the key of the i-th record
JsonText(i, key) ==
  LET object == listings_json[1][i]
      member == CHOOSE k \in 1..Len(object) : object[k].key = key
  IN  object[member].text

\* the cell written to listings.csv for the key of the i-th record
CsvCell(i, key) ==
  LET file == listings_csv[1]
      column == CHOOSE k \in 1..Len(file.header) : file.header[k] = key
  IN  file.rows[i][column]

\* C9: print_listings leaves the records as they were extracted: whatever the order
\* of the print_listings, save_to_json and save_to_csv calls, every record stays, in
\* every field, the one resolved from its block, the description written to either
\* file is the full stored one, and only the printed line is cut to 100 characters
\* and an ellipsis.
C9_TruncationDisplayOnly ==
  (Parsed /\ Returned) =>
    \A i \in 1..Len(listings) :
      LET stored == listings[i]["description"]
      IN  /\ listings[i] = _extract_listing_data(soup, found_listings[listings[i]["index"]],
                                                 listings[i]["index"])
          /\ listings_json # <<>> => JsonText(i, "description") = stored
          /\ listings_csv # <<>> => CsvCell(i, "description") = stored
          /\ printed # <<>> =>
               \A n \in 1..Len(printed[1][i]) :
                 printed[1][i][n].label = "Description" =>
                   LET shown == printed[1][i][n].text
                   IN  IF Len(stored) <= DisplayLimit THEN shown = stored
                       ELSE /\ Len(shown) = DisplayLimit + 3
                            /\ SubSeq(shown, 1, DisplayLimit) = SubSeq(stored, 1, DisplayLimit)

\* C9 witness: a description of more than 100 characters was printed cut and saved whole
C9_Witness ==
  /\ pc = "done"
  /\ called = {"print_listings", "save_to_json", "save_to_csv"}
  /\ \E i \in 1..Len(listings) :
       /\ Len(listings[i]["description"]) > DisplayLimit
       /\ \E n \in 1..Len(printed[1][i]) :
            /\ printed[1][i][n].label = "Description"
            /\ Len(printed[1][i][n].text) = DisplayLimit + 3
       /\ Len(JsonText(i, "description")) > DisplayLimit
       /\ Len(CsvCell(i, "description")) > DisplayLimit

\* the positions of the elements that carry the marker attribute
MarkedNodes(dom) == SetToSortedSeq({j \in 1..Len(dom) : dom[j].marker})

MarkedDivs(dom) == SetToSortedSeq({j \in 1..Len(dom) : dom[j].marker /\ dom[j].tag = "div"})

\* C10 (as amended): when no (tag, class) pair of strategy 1 matches, strategy 2
\* collects all div elements that carry data-listing-id, whatever their class; a
\* marked element of another tag is not collected by it, and a page whose only
\* marked nodes are not div elements goes on to the article and class-text
\* strategies.
C10_MarkerOnDivOnly ==
  (Parsed /\ \A k \in 1..5 : Strategy(soup, k) = <<>>) =>
    IF MarkedDivs(soup) # <<>>
    THEN found_listings = MarkedDivs(soup)
    ELSE found_listings = IF AllArticles(soup) # <<>> THEN AllArticles(soup)
                          ELSE DivByClassText(soup)

\* C10 witness: a marked div and a marked span on a page without class matches;
\* the div alone is a listing block
C10_Witness ==
  /\ Parsed
  /\ \A k \in 1..5 : Strategy(soup, k) = <<>>
  /\ MarkedDivs(soup) # <<>>
  /\ MarkedNodes(soup) # MarkedDivs(soup)
  /\ found_listings = MarkedDivs(soup)

\* C10 (as stated): when no (tag, class) pair of strategy 1 matches, the nodes that
\* carry data-listing-id, whatever their tag, are the listing blocks
C10_AsStated ==
  (Parsed /\ (\A k \in 1..5 : Strategy(soup, k) = <<>>) /\ MarkedNodes(soup) # <<>>) =>
    found_listings = MarkedNodes(soup)
=============================================================================
